---------------------------- MODULE Spec2Model ----------------------------
(***************************************************************************)
(* A model of the Pratt parser of the moo expression language              *)
(* (src/src/parser/parser.py) over the token model (src/src/lexer/token.py)*)
(* and the AST nodes (src/src/parser/ast.py).                              *)
(*                                                                         *)
(* The parser is recursive; the model keeps the Python call stack as the   *)
(* variable `stack` (one frame per active method call, with the method's   *)
(* locals and the place it resumes at) and the value a call has just       *)
(* returned as `ret`.  Every action is one basic block of one method: from *)
(* its entry, or from the return of a call it made, to the next call it    *)
(* makes or to its own return.                                             *)
(*                                                                         *)
(* The lexer (src/lexer/lexer.py) is not part of the sources at hand; it   *)
(* is modelled from its contract: next_token() yields the tokens of the    *)
(* source in order and then the end-of-file token on every later call.     *)
(***************************************************************************)
EXTENDS Integers, Sequences, FiniteSets, TLC

VARIABLES
    source,         \* the lexer's input, as the tokens it will emit before EOF
    cursor,         \* the lexer's cursor: index of the next token it emits
    current_token,  \* Parser.current_token
    peek_token,     \* Parser.peek_token
    errors,         \* Parser.errors
    stack,          \* the call stack, innermost call last
    ret,            \* the value returned by the call that has just returned
    iter_start,     \* history: position of current_token when the running
                    \* iteration of parse_program's loop began (0: none yet)
    pe_calls        \* history: position of current_token at each entry of
                    \* __parse_expression, in call order

vars == <<source, cursor, current_token, peek_token, errors, stack, ret,
          iter_start, pe_calls>>

---------------------------------------------------------------------------
(* Bounds of the model                                                     *)

\* longest token sequence drawn from the whole alphabet
MaxLen == 4
\* largest number of `literal ;` statements in the literal-statement inputs
MaxStmts == 3

---------------------------------------------------------------------------
(* Tokens: src/src/lexer/token.py                                          *)

TokenType ==
    {"EOF", "ILLEGAL", "INT", "FLOAT", "PLUS", "MINUS", "ASTERISK", "SLASH",
     "POW", "MODULUS", "SEMICOLON", "LPAREN", "RPAREN"}

\* Token(type, literal, line_no, position); a literal is its characters
Token(type, literal, line_no, position) ==
    [type |-> type, literal |-> literal, line_no |-> line_no,
     position |-> position]

---------------------------------------------------------------------------
(* Precedences: parser.py, PrecedenceType and PRECEDENCES                  *)

P_LOWEST == 0
P_EQUALS == 1
P_LESSGREATER == 2
P_SUM == 3
P_PRODUCT == 4
P_EXPONENT == 5
P_PREFIX == 6
P_CALL == 7
P_INDEX == 8

\* the table with the levels of the sums and the products exchanged
PRECEDENCES_Swapped ==
    [tt \in {"PLUS", "MINUS", "ASTERISK", "SLASH", "MODULUS", "POW"} |->
        CASE tt \in {"PLUS", "MINUS"} -> P_PRODUCT
          [] tt \in {"ASTERISK", "SLASH", "MODULUS"} -> P_SUM
          [] OTHER -> P_EXPONENT]

PRECEDENCES ==
    [tt \in {"PLUS", "MINUS", "ASTERISK", "SLASH", "MODULUS", "POW"} |->
        CASE tt \in {"PLUS", "MINUS"} -> P_SUM
          [] tt \in {"ASTERISK", "SLASH", "MODULUS"} -> P_PRODUCT
          [] OTHER -> P_EXPONENT]

\* PRECEDENCES.get(tt, PrecedenceType.P_LOWEST)
PrecedenceOf(tt) ==
    IF tt \in DOMAIN PRECEDENCES THEN PRECEDENCES[tt] ELSE P_LOWEST

\* the handler tables set up by Parser.__init__
prefix_parse_fns ==
    [tt \in {"INT", "FLOAT", "LPAREN"} |->
        CASE tt = "INT" -> "parse_int_literal"
          [] tt = "FLOAT" -> "parse_float_literal"
          [] OTHER -> "parse_grouped_expression"]

infix_parse_fns ==
    [tt \in {"PLUS", "MINUS", "SLASH", "ASTERISK", "POW", "MODULUS"} |->
        "parse_infix_expression"]

---------------------------------------------------------------------------
(* AST nodes: src/src/parser/ast.py.  Python's None is the node NoneValue. *)

NoneValue == [type |-> "None"]

Program(statements) == [type |-> "Program", statements |-> statements]

ExpressionStatement(expr) == [type |-> "ExpressionStatement", expr |-> expr]

InfixExpression(left_node, operator, right_node) ==
    [type |-> "InfixExpression", left_node |-> left_node,
     operator |-> operator, right_node |-> right_node]

IntegerLiteral(value) == [type |-> "IntegerLiteral", value |-> value]

FloatLiteral(value) == [type |-> "FloatLiteral", value |-> value]

---------------------------------------------------------------------------
(* Python's int() and float() on the characters of a literal.  The         *)
(* literals of this language are written with digits and ".".              *)

Digits == <<"0", "1", "2", "3", "4", "5", "6", "7", "8", "9">>

IsDigit(c) == \E i \in 1..Len(Digits) : Digits[i] = c

DigitValue(c) == (CHOOSE i \in 1..Len(Digits) : Digits[i] = c) - 1

RECURSIVE DigitsValue(_)
DigitsValue(s) ==
    IF s = <<>> THEN 0
    ELSE 10 * DigitsValue(SubSeq(s, 1, Len(s) - 1)) + DigitValue(s[Len(s)])

\* int(text): the value, or a ValueError
PyInt(text) ==
    IF text # <<>> /\ \A i \in 1..Len(text) : IsDigit(text[i])
    THEN [ok |-> TRUE, value |-> DigitsValue(text)]
    ELSE [ok |-> FALSE, value |-> 0]

RECURSIVE StripZeros(_)
\* a decimal [mantissa, exponent] without trailing zeros in the mantissa
StripZeros(d) ==
    IF d.exponent < 0 /\ d.mantissa % 10 = 0
    THEN StripZeros([mantissa |-> d.mantissa \div 10,
                     exponent |-> d.exponent + 1])
    ELSE d

\* float(text): the value as the decimal mantissa * 10^exponent, or a
\* ValueError
PyFloat(text) ==
    LET dots == {i \in 1..Len(text) : text[i] = "."}
        digs == SelectSeq(text, IsDigit)
    IN  IF /\ Cardinality(dots) <= 1
           /\ digs # <<>>
           /\ \A i \in 1..Len(text) : IsDigit(text[i]) \/ text[i] = "."
        THEN [ok |-> TRUE,
              value |-> StripZeros(
                  [mantissa |-> DigitsValue(digs),
                   exponent |-> IF dots = {} THEN 0
                                ELSE (CHOOSE i \in dots : TRUE) - Len(text)])]
        ELSE [ok |-> FALSE, value |-> [mantissa |-> 0, exponent |-> 0]]

---------------------------------------------------------------------------
(* The lexer's contract: the tokens of the source, then EOF for ever.      *)

EOFToken(src) == Token("EOF", <<>>, 1, Len(src) + 1)

LexerNextToken(src, cur) ==
    IF cur <= Len(src)
    THEN [token |-> src[cur], cursor |-> cur + 1]
    ELSE [token |-> EOFToken(src), cursor |-> cur]

---------------------------------------------------------------------------
(* The parser's fields as one value, and the methods that only touch them  *)

ParserState ==
    [current_token |-> current_token, peek_token |-> peek_token,
     errors |-> errors, cursor |-> cursor]

\* the fields after a method left them as P
Becomes(P) ==
    /\ current_token' = P.current_token
    /\ peek_token' = P.peek_token
    /\ errors' = P.errors
    /\ cursor' = P.cursor

next_token(P) ==
    LET r == LexerNextToken(source, P.cursor)
    IN  [P EXCEPT !.current_token = P.peek_token,
                  !.peek_token = r.token,
                  !.cursor = r.cursor]

peek_token_is(P, tt) == P.peek_token.type = tt

current_precedence(P) == PrecedenceOf(P.current_token.type)

peek_precedence(P) == PrecedenceOf(P.peek_token.type)

peek_error(P, tt) ==
    [P EXCEPT !.errors =
        Append(@, <<"Expected next token to be", tt, "got",
                    P.peek_token.type, "instead">>)]

\* the diagnostic is not recorded
no_prefix_parse_fn_error_Dropped(P, tt) == P

no_prefix_parse_fn_error(P, tt) ==
    [P EXCEPT !.errors =
        Append(@, <<"No prefix parse function for", tt, "found">>)]

\* succeeds without advancing
expect_peek_NoAdvance(P, tt) ==
    IF peek_token_is(P, tt)
    THEN [parser |-> P, result |-> TRUE]
    ELSE [parser |-> peek_error(P, tt), result |-> FALSE]

\* fails, and skips the unexpected token
expect_peek_SkipsOnFailure(P, tt) ==
    IF peek_token_is(P, tt)
    THEN [parser |-> next_token(P), result |-> TRUE]
    ELSE [parser |-> next_token(peek_error(P, tt)), result |-> FALSE]

\* the parser after the call, and the call's result
expect_peek(P, tt) ==
    IF peek_token_is(P, tt)
    THEN [parser |-> next_token(P), result |-> TRUE]
    ELSE [parser |-> peek_error(P, tt), result |-> FALSE]

\* builds the node of the other literal
parse_int_literal_AsFloat(P) ==
    LET v == PyInt(P.current_token.literal)
    IN  IF v.ok
        THEN [parser |-> P, result |-> FloatLiteral(v.value)]
        ELSE [parser |->
                [P EXCEPT !.errors =
                    Append(@, <<"Could not parse", P.current_token.literal,
                                "as an integer.">>)],
              result |-> NoneValue]

parse_int_literal(P) ==
    LET v == PyInt(P.current_token.literal)
    IN  IF v.ok
        THEN [parser |-> P, result |-> IntegerLiteral(v.value)]
        ELSE [parser |->
                [P EXCEPT !.errors =
                    Append(@, <<"Could not parse", P.current_token.literal,
                                "as an integer.">>)],
              result |-> NoneValue]

parse_float_literal(P) ==
    LET v == PyFloat(P.current_token.literal)
    IN  IF v.ok
        THEN [parser |-> P, result |-> FloatLiteral(v.value)]
        ELSE [parser |->
                [P EXCEPT !.errors =
                    Append(@, <<"Could not parse", P.current_token.literal,
                                "as a float.">>)],
              result |-> NoneValue]

---------------------------------------------------------------------------
(* Inputs: the token sequences the lexer is given to emit                  *)

Lexeme(type, literal) == [type |-> type, literal |-> literal]

\* the tokens of a sequence of lexemes, each at its place in the stream
Tokens(lexemes) ==
    [i \in 1..Len(lexemes) |->
        Token(lexemes[i].type, lexemes[i].literal, 1, i)]

IntLexeme(text) == Lexeme("INT", text)

FloatLexeme(text) == Lexeme("FLOAT", text)

Semicolon == Lexeme("SEMICOLON", <<";">>)

LParen == Lexeme("LPAREN", <<"(">>)

RParen == Lexeme("RPAREN", <<")">>)

Illegal == Lexeme("ILLEGAL", <<"@">>)

Operators ==
    {Lexeme("PLUS", <<"+">>), Lexeme("MINUS", <<"-">>),
     Lexeme("ASTERISK", <<"*">>), Lexeme("SLASH", <<"/">>),
     Lexeme("MODULUS", <<"%">>), Lexeme("POW", <<"^">>)}

Op(type) == CHOOSE o \in Operators : o.type = type

Literals ==
    {IntLexeme(<<"1">>), IntLexeme(<<"2", "3">>),
     FloatLexeme(<<"2", ".", "5">>)}

IntLiterals ==
    {IntLexeme(<<"1">>), IntLexeme(<<"2", "3">>), IntLexeme(<<"0", "7">>)}

\* every sequence of at most MaxLen lexemes of this alphabet
Alphabet ==
    {IntLexeme(<<"1">>), Op("PLUS"), Op("ASTERISK"), Semicolon, LParen, RParen,
     Illegal}

AnyInputs == UNION {[1..n -> Alphabet] : n \in 0..MaxLen}

\* a op1 b op2 c ;
TwoOperatorInputs ==
    {<<a, op1, b, op2, c, Semicolon>> :
        a \in Literals, b \in Literals, c \in Literals,
        op1 \in Operators, op2 \in Operators}

\* ( a op1 b ) op2 c ;
GroupedInputs ==
    {<<LParen, a, op1, b, RParen, op2, c, Semicolon>> :
        a \in Literals, b \in Literals, c \in Literals,
        op1 \in Operators, op2 \in Operators}

RECURSIVE Statements(_)
\* the inputs made of the literals of a sequence, each followed by ";"
Statements(lits) ==
    IF lits = <<>> THEN <<>>
    ELSE <<lits[1], Semicolon>> \o Statements(Tail(lits))

LiteralStatementInputs ==
    {Statements(lits) :
        lits \in UNION {[1..n -> IntLiterals] : n \in 0..MaxStmts}}

\* the inputs the specification names
Examples ==
    {<<IntLexeme(<<"1">>), Op("PLUS"), IntLexeme(<<"2">>), Op("ASTERISK"),
       IntLexeme(<<"3">>), Semicolon>>,
     <<IntLexeme(<<"8">>), Op("SLASH"), IntLexeme(<<"4">>), Op("SLASH"),
       IntLexeme(<<"2">>), Semicolon>>,
     <<LParen, IntLexeme(<<"1">>), Op("PLUS"), IntLexeme(<<"2">>), RParen,
       Op("ASTERISK"), IntLexeme(<<"3">>), Semicolon>>,
     <<LParen, IntLexeme(<<"1">>), Op("PLUS"), IntLexeme(<<"2">>), Semicolon>>,
     <<IntLexeme(<<"1">>), Op("PLUS"), Illegal, Op("ASTERISK"),
       IntLexeme(<<"3">>), Semicolon>>}

Inputs ==
    AnyInputs \cup TwoOperatorInputs \cup GroupedInputs
        \cup LiteralStatementInputs \cup Examples

---------------------------------------------------------------------------
(* The call stack                                                          *)

NoReturn == [type |-> "NoReturn"]

Top == stack[Len(stack)]

Running(fn, pc) == stack # <<>> /\ Top.fn = fn /\ Top.pc = pc

\* the running frame moves on to f and calls: callee is pushed
Call(f, callee) ==
    /\ stack' = SubSeq(stack, 1, Len(stack) - 1) \o <<f, callee>>
    /\ ret' = NoReturn

\* the running method goes on in its own frame, now f
Goto(f) ==
    /\ stack' = SubSeq(stack, 1, Len(stack) - 1) \o <<f>>
    /\ ret' = NoReturn

\* the running method returns value
Return(value) ==
    /\ stack' = SubSeq(stack, 1, Len(stack) - 1)
    /\ ret' = value

ParseExpressionFrame(precedence) ==
    [fn |-> "parse_expression", pc |-> "entry", precedence |-> precedence,
     left_expr |-> NoneValue]

\* parse_program has returned
Done == stack = <<>> /\ ret # NoReturn

---------------------------------------------------------------------------
(* Parser.__init__: the fields after construction over a lexer             *)

Constructed ==
    LET eof_token == Token("EOF", <<>>, 0, 0)
    IN  next_token(next_token(
            [current_token |-> eof_token, peek_token |-> eof_token,
             errors |-> <<>>, cursor |-> 1]))

Init ==
    /\ source \in {Tokens(lexemes) : lexemes \in Inputs}
    /\ cursor = Constructed.cursor
    /\ current_token = Constructed.current_token
    /\ peek_token = Constructed.peek_token
    /\ errors = Constructed.errors
    /\ stack = <<>>
    /\ ret = NoReturn
    /\ iter_start = 0
    /\ pe_calls = <<>>

---------------------------------------------------------------------------
(* parse_program                                                           *)

\* the call: program = Program()
ParseProgramCall ==
    /\ stack = <<>> /\ ret = NoReturn
    /\ stack' = <<[fn |-> "parse_program", pc |-> "while",
                   program |-> Program(<<>>)]>>
    /\ UNCHANGED <<source, cursor, current_token, peek_token, errors, ret,
                   iter_start, pe_calls>>

\* the loop's test holds: __parse_statement(), which is
\* __parse_expression_statement()
ParseProgramIterate ==
    /\ Running("parse_program", "while")
    /\ current_token.type # "EOF"
    /\ Call([Top EXCEPT !.pc = "stmt"],
            [fn |-> "parse_expression_statement", pc |-> "entry"])
    /\ iter_start' = current_token.position
    /\ UNCHANGED <<source, cursor, current_token, peek_token, errors,
                   pe_calls>>

\* appends the statement and does not advance
ParseProgramAppend_NoAdvance ==
    /\ Running("parse_program", "stmt")
    /\ Goto([Top EXCEPT
                !.pc = "while",
                !.program = Program(Append(@.statements, ret))])
    /\ UNCHANGED <<source, cursor, current_token, peek_token, errors,
                   iter_start, pe_calls>>

\* the statement is back: append it and advance
ParseProgramAppend ==
    /\ Running("parse_program", "stmt")
    /\ Goto([Top EXCEPT
                !.pc = "while",
                !.program =
                    IF ret # NoneValue
                    THEN Program(Append(@.statements, ret))
                    ELSE @])
    /\ Becomes(next_token(ParserState))
    /\ UNCHANGED <<source, iter_start, pe_calls>>

\* the loop's test fails: return program
ParseProgramReturn ==
    /\ Running("parse_program", "while")
    /\ current_token.type = "EOF"
    /\ Return(Top.program)
    /\ UNCHANGED <<source, cursor, current_token, peek_token, errors,
                   iter_start, pe_calls>>

---------------------------------------------------------------------------
(* __parse_expression_statement                                            *)

ParseExpressionStatementEntry ==
    /\ Running("parse_expression_statement", "entry")
    /\ Call([Top EXCEPT !.pc = "expr"], ParseExpressionFrame(P_LOWEST))
    /\ UNCHANGED <<source, cursor, current_token, peek_token, errors,
                   iter_start, pe_calls>>

\* advances past the next token whatever its kind
ParseExpressionStatementFinish_AlwaysAdvances ==
    /\ Running("parse_expression_statement", "expr")
    /\ Becomes(next_token(ParserState))
    /\ Return(ExpressionStatement(ret))
    /\ UNCHANGED <<source, iter_start, pe_calls>>

ParseExpressionStatementFinish ==
    /\ Running("parse_expression_statement", "expr")
    /\ Becomes(IF peek_token_is(ParserState, "SEMICOLON")
               THEN next_token(ParserState)
               ELSE ParserState)
    /\ Return(ExpressionStatement(ret))
    /\ UNCHANGED <<source, iter_start, pe_calls>>

---------------------------------------------------------------------------
(* __parse_expression                                                      *)

\* from the entry to the prefix handler's call (a literal's handler calls
\* nothing and is run here), or to the return for want of a handler
ParseExpressionEntry ==
    /\ Running("parse_expression", "entry")
    /\ pe_calls' = Append(pe_calls, current_token.position)
    /\ IF current_token.type \notin DOMAIN prefix_parse_fns
       THEN /\ Becomes(no_prefix_parse_fn_error(ParserState,
                                                current_token.type))
            /\ Return(NoneValue)
       ELSE LET prefix_fn == prefix_parse_fns[current_token.type]
            IN  IF prefix_fn = "parse_grouped_expression"
                THEN /\ Call([Top EXCEPT !.pc = "prefix"],
                             [fn |-> "parse_grouped_expression",
                              pc |-> "entry"])
                     /\ UNCHANGED <<cursor, current_token, peek_token,
                                    errors>>
                ELSE LET r == IF prefix_fn = "parse_int_literal"
                              THEN parse_int_literal(ParserState)
                              ELSE parse_float_literal(ParserState)
                     IN  /\ Becomes(r.parser)
                         /\ Goto([Top EXCEPT !.pc = "while",
                                             !.left_expr = r.result])
    /\ UNCHANGED <<source, iter_start>>

\* the grouped expression is back: left_expr = prefix_fn()
ParseExpressionPrefix ==
    /\ Running("parse_expression", "prefix")
    /\ Goto([Top EXCEPT !.pc = "while", !.left_expr = ret])
    /\ UNCHANGED <<source, cursor, current_token, peek_token, errors,
                   iter_start, pe_calls>>

\* the test with <= for <
WhileCondition_NotStrict(P, precedence) ==
    /\ ~peek_token_is(P, "SEMICOLON")
    /\ precedence <= peek_precedence(P)

\* the while loop's test
WhileCondition(P, precedence) ==
    /\ ~peek_token_is(P, "SEMICOLON")
    /\ precedence < peek_precedence(P)

\* one test of the loop: into the infix handler, or out with left_expr
ParseExpressionWhile ==
    /\ Running("parse_expression", "while")
    /\ IF /\ WhileCondition(ParserState, Top.precedence)
          /\ peek_token.type \in DOMAIN infix_parse_fns
       THEN /\ Becomes(next_token(ParserState))
            /\ Call([Top EXCEPT !.pc = "infix"],
                    [fn |-> "parse_infix_expression", pc |-> "entry",
                     left_node |-> Top.left_expr])
       ELSE /\ Return(Top.left_expr)
            /\ UNCHANGED <<cursor, current_token, peek_token, errors>>
    /\ UNCHANGED <<source, iter_start, pe_calls>>

\* the infix handler is back: left_expr = infix_fn(left_expr)
ParseExpressionInfix ==
    /\ Running("parse_expression", "infix")
    /\ Goto([Top EXCEPT !.pc = "while", !.left_expr = ret])
    /\ UNCHANGED <<source, cursor, current_token, peek_token, errors,
                   iter_start, pe_calls>>

---------------------------------------------------------------------------
(* __parse_infix_expression                                                *)

ParseInfixExpressionEntry ==
    /\ Running("parse_infix_expression", "entry")
    /\ Becomes(next_token(ParserState))
    /\ Call([fn |-> "parse_infix_expression", pc |-> "right",
             left_node |-> Top.left_node,
             operator |-> current_token.literal,
             precedence |-> current_precedence(ParserState)],
            ParseExpressionFrame(current_precedence(ParserState)))
    /\ UNCHANGED <<source, iter_start, pe_calls>>

ParseInfixExpressionFinish ==
    /\ Running("parse_infix_expression", "right")
    /\ Return(IF ret = NoneValue
              THEN NoneValue
              ELSE InfixExpression(Top.left_node, Top.operator, ret))
    /\ UNCHANGED <<source, cursor, current_token, peek_token, errors,
                   iter_start, pe_calls>>

---------------------------------------------------------------------------
(* __parse_grouped_expression                                              *)

ParseGroupedExpressionEntry ==
    /\ Running("parse_grouped_expression", "entry")
    /\ Becomes(next_token(ParserState))
    /\ Call([Top EXCEPT !.pc = "expr"], ParseExpressionFrame(P_LOWEST))
    /\ UNCHANGED <<source, iter_start, pe_calls>>

\* returns the inner expression though ")" is missing
ParseGroupedExpressionFinish_KeepsExpr ==
    /\ Running("parse_grouped_expression", "expr")
    /\ LET r == expect_peek(ParserState, "RPAREN")
       IN  /\ Becomes(r.parser)
           /\ Return(ret)
    /\ UNCHANGED <<source, iter_start, pe_calls>>

ParseGroupedExpressionFinish ==
    /\ Running("parse_grouped_expression", "expr")
    /\ LET r == expect_peek(ParserState, "RPAREN")
       IN  /\ Becomes(r.parser)
           /\ Return(IF ~r.result THEN NoneValue ELSE ret)
    /\ UNCHANGED <<source, iter_start, pe_calls>>

---------------------------------------------------------------------------

Next ==
    \/ ParseProgramCall
    \/ ParseProgramIterate
    \/ ParseProgramAppend
    \/ ParseProgramReturn
    \/ ParseExpressionStatementEntry
    \/ ParseExpressionStatementFinish
    \/ ParseExpressionEntry
    \/ ParseExpressionPrefix
    \/ ParseExpressionWhile
    \/ ParseExpressionInfix
    \/ ParseInfixExpressionEntry
    \/ ParseInfixExpressionFinish
    \/ ParseGroupedExpressionEntry
    \/ ParseGroupedExpressionFinish

Spec == Init /\ [][Next]_vars

\* the interpreter runs the one thread to the end of parse_program
FairSpec == Spec /\ WF_vars(Next)

---------------------------------------------------------------------------
(* What the claims speak of                                                *)

\* the token at place i of the stream the lexer emits
StreamAt(i) == IF i <= Len(source) THEN source[i] ELSE EOFToken(source)

\* the node a literal of the inputs stands for, read off its text by hand
LiteralNode(literal) ==
    CASE literal = <<"1">> -> IntegerLiteral(1)
      [] literal = <<"2">> -> IntegerLiteral(2)
      [] literal = <<"3">> -> IntegerLiteral(3)
      [] literal = <<"4">> -> IntegerLiteral(4)
      [] literal = <<"8">> -> IntegerLiteral(8)
      [] literal = <<"2", "3">> -> IntegerLiteral(23)
      [] literal = <<"0", "7">> -> IntegerLiteral(7)
      [] literal = <<"2", ".", "5">> ->
            FloatLiteral([mantissa |-> 25, exponent |-> -1])

LiteralTypes == {"INT", "FLOAT"}

OperatorTypes == {"PLUS", "MINUS", "ASTERISK", "SLASH", "MODULUS", "POW"}

\* the binding strength of an operator as the language defines it:
\* ^ above * / % above + -
Level(tt) ==
    CASE tt \in {"PLUS", "MINUS"} -> 1
      [] tt \in {"ASTERISK", "SLASH", "MODULUS"} -> 2
      [] tt = "POW" -> 3

TypesOf(tokens) == [i \in 1..Len(tokens) |-> tokens[i].type]

\* a op1 b op2 c ;
IsTwoOperatorInput ==
    /\ Len(source) = 6
    /\ source[1].type \in LiteralTypes /\ source[2].type \in OperatorTypes
    /\ source[3].type \in LiteralTypes /\ source[4].type \in OperatorTypes
    /\ source[5].type \in LiteralTypes /\ source[6].type = "SEMICOLON"

\* ( a op1 b ) op2 c ;
IsGroupedInput ==
    /\ Len(source) = 8
    /\ source[1].type = "LPAREN"
    /\ source[2].type \in LiteralTypes /\ source[3].type \in OperatorTypes
    /\ source[4].type \in LiteralTypes /\ source[5].type = "RPAREN"
    /\ source[6].type \in OperatorTypes
    /\ source[7].type \in LiteralTypes /\ source[8].type = "SEMICOLON"

\* n >= 0 times: an integer literal, then a terminator
IsLiteralStatements ==
    /\ Len(source) % 2 = 0
    /\ \A i \in 1..Len(source) :
          source[i].type = IF i % 2 = 1 THEN "INT" ELSE "SEMICOLON"

Node(i) == LiteralNode(source[i].literal)

RECURSIVE OperandsPresent(_)
\* no InfixExpression of the tree e has an absent operand
OperandsPresent(e) ==
    e.type = "InfixExpression" =>
        /\ e.left_node # NoneValue /\ e.right_node # NoneValue
        /\ OperandsPresent(e.left_node) /\ OperandsPresent(e.right_node)

PeekErrorMessage(tt, got) ==
    <<"Expected next token to be", tt, "got", got, "instead">>

NoPrefixMessage(tt) == <<"No prefix parse function for", tt, "found">>

Count(seq, x) == Cardinality({i \in 1..Len(seq) : seq[i] = x})

---------------------------------------------------------------------------
(* C1                                                                      *)

\* at the head of parse_program's loop, current_token is strictly later in
\* the stream than it was when the iteration just run began
IterationAdvanced ==
    Running("parse_program", "while") /\ iter_start # 0
        => current_token.position > iter_start

\* C1: every iteration of parse_program's loop leaves current_token
\* strictly later in the token stream than it found it, and parse_program
\* returns, on every token sequence followed by a repeating EOF.
C1_IterationsAdvanceAndTerminate == []IterationAdvanced /\ <>Done

\* an unparseable input on which the loop ran at least three times
C1_Witness ==
    /\ Done /\ Len(ret.statements) >= 3 /\ errors # <<>>
    /\ \E i \in 1..Len(source) : source[i].type = "ILLEGAL"

---------------------------------------------------------------------------
(* C2                                                                      *)

\* C2: every InfixExpression of the Program parse_program returns has a
\* present left operand and a present right operand, whatever the tokens.
C2_InfixOperandsPresent ==
    Done => \A i \in 1..Len(ret.statements) :
                OperandsPresent(ret.statements[i].expr)

---------------------------------------------------------------------------
(* C3                                                                      *)

\* C3: a op1 b op2 c ; with op2 binding strictly tighter than op1 parses to
\* op1(a, op2(b, c)) with no diagnostics; 1 + 2 * 3 ; to +(1, *(2, 3)).
C3_Precedence ==
    /\ Done /\ IsTwoOperatorInput
            /\ Level(source[4].type) > Level(source[2].type)
        => /\ ret = Program(<<ExpressionStatement(
                        InfixExpression(Node(1), source[2].literal,
                            InfixExpression(Node(3), source[4].literal,
                                            Node(5))))>>)
           /\ errors = <<>>
    /\ Done /\ TypesOf(source) = <<"INT", "PLUS", "INT", "ASTERISK", "INT",
                                   "SEMICOLON">>
            /\ source[1].literal = <<"1">> /\ source[3].literal = <<"2">>
            /\ source[5].literal = <<"3">>
        => ret.statements[1].expr =
              InfixExpression(IntegerLiteral(1), <<"+">>,
                  InfixExpression(IntegerLiteral(2), <<"*">>,
                                  IntegerLiteral(3)))

\* 2.5 * 1 ^ 23 ; has been parsed
C3_Witness ==
    /\ Done /\ IsTwoOperatorInput
    /\ source[2].type = "ASTERISK" /\ source[4].type = "POW"
    /\ source[1].type = "FLOAT" /\ source[3].literal = <<"1">>
    /\ source[5].literal = <<"2", "3">>
    /\ ret.statements[1].expr.right_node.type = "InfixExpression"

---------------------------------------------------------------------------
(* C4                                                                      *)

\* C4: a op1 b op2 c ; with op1 and op2 of equal precedence parses to
\* op2(op1(a, b), c); 8 / 4 / 2 ; to /(/(8, 4), 2).
C4_LeftAssociative ==
    /\ Done /\ IsTwoOperatorInput
            /\ Level(source[4].type) = Level(source[2].type)
        => ret = Program(<<ExpressionStatement(
                     InfixExpression(
                         InfixExpression(Node(1), source[2].literal,
                                         Node(3)),
                         source[4].literal, Node(5)))>>)
    /\ Done /\ TypesOf(source) = <<"INT", "SLASH", "INT", "SLASH", "INT",
                                   "SEMICOLON">>
            /\ source[1].literal = <<"8">> /\ source[3].literal = <<"4">>
            /\ source[5].literal = <<"2">>
        => ret.statements[1].expr =
              InfixExpression(
                  InfixExpression(IntegerLiteral(8), <<"/">>,
                                  IntegerLiteral(4)),
                  <<"/">>, IntegerLiteral(2))

\* 1 ^ 23 ^ 2.5 ; has been parsed
C4_Witness ==
    /\ Done /\ IsTwoOperatorInput
    /\ source[2].type = "POW" /\ source[4].type = "POW"
    /\ source[1].literal = <<"1">> /\ source[3].literal = <<"2", "3">>
    /\ source[5].type = "FLOAT"
    /\ ret.statements[1].expr.left_node.type = "InfixExpression"

---------------------------------------------------------------------------
(* C5                                                                      *)

\* C5: ( a op1 b ) op2 c ; with op2 binding at least as tightly as op1
\* parses to op2(op1(a, b), c) with no diagnostics and no node for the
\* parentheses; ( 1 + 2 ) * 3 ; to *(+(1, 2), 3).
C5_Grouping ==
    /\ Done /\ IsGroupedInput
            /\ Level(source[6].type) >= Level(source[3].type)
        => /\ ret = Program(<<ExpressionStatement(
                        InfixExpression(
                            InfixExpression(Node(2), source[3].literal,
                                            Node(4)),
                            source[6].literal, Node(7)))>>)
           /\ errors = <<>>
    /\ Done /\ TypesOf(source) = <<"LPAREN", "INT", "PLUS", "INT", "RPAREN",
                                   "ASTERISK", "INT", "SEMICOLON">>
            /\ source[2].literal = <<"1">> /\ source[4].literal = <<"2">>
            /\ source[7].literal = <<"3">>
        => ret.statements[1].expr =
              InfixExpression(
                  InfixExpression(IntegerLiteral(1), <<"+">>,
                                  IntegerLiteral(2)),
                  <<"*">>, IntegerLiteral(3))

\* ( 1 + 2 ) * 3 ; has been parsed
C5_Witness ==
    /\ Done /\ IsGroupedInput
    /\ source[3].type = "PLUS" /\ source[6].type = "ASTERISK"
    /\ source[2].literal = <<"1">> /\ source[4].literal = <<"2">>
    /\ source[7].literal = <<"3">>

---------------------------------------------------------------------------
(* C6                                                                      *)

\* ( 1 + 2 ;
IsUnclosedExample ==
    /\ TypesOf(source) = <<"LPAREN", "INT", "PLUS", "INT", "SEMICOLON">>
    /\ source[2].literal = <<"1">> /\ source[4].literal = <<"2">>

\* the outcome of parsing ( 1 + 2 ;
UnclosedExampleOutcome ==
    Done /\ IsUnclosedExample
        => /\ ret = Program(<<ExpressionStatement(NoneValue)>>)
           /\ errors = <<PeekErrorMessage("RPAREN", "SEMICOLON")>>

\* a group whose inner expression is back and is not followed by ")"
\* records the one diagnostic and yields an absent expression
UnclosedGroupStep ==
    Running("parse_grouped_expression", "expr") /\ peek_token.type # "RPAREN"
        => /\ errors' = Append(errors,
                               PeekErrorMessage("RPAREN", peek_token.type))
           /\ ret' = NoneValue
           /\ stack' = SubSeq(stack, 1, Len(stack) - 1)

\* C6: parsing ( 1 + 2 ; returns a Program and leaves the one diagnostic
\* "expected next token to be RPAREN, got SEMICOLON"; and every group whose
\* inner expression is not followed by ")" records exactly one such
\* diagnostic and yields an absent expression.
C6_UnclosedGroup == []UnclosedExampleOutcome /\ [][UnclosedGroupStep]_vars

\* ( 1 + 2 ; has been parsed
C6_Witness ==
    /\ Done /\ IsUnclosedExample
    /\ Count(errors, PeekErrorMessage("RPAREN", "SEMICOLON")) = 1

---------------------------------------------------------------------------
(* C7                                                                      *)

\* C7: n >= 0 integer literals, each followed by a terminator, parse to
\* the n ExpressionStatements of their IntegerLiterals, in source order,
\* with no diagnostics.
C7_LiteralStatements ==
    Done /\ IsLiteralStatements
        => /\ ret.type = "Program"
           /\ Len(ret.statements) = Len(source) \div 2
           /\ \A i \in 1..Len(ret.statements) :
                 ret.statements[i] = ExpressionStatement(Node(2 * i - 1))
           /\ errors = <<>>

\* 23 ; 07 ; 1 ; has been parsed
C7_Witness ==
    /\ Done /\ IsLiteralStatements /\ Len(source) = 6
    /\ source[1].literal = <<"2", "3">> /\ source[3].literal = <<"0", "7">>
    /\ source[5].literal = <<"1">>
    /\ Len(ret.statements) = 3

\* the empty input has been parsed
C7_WitnessEmpty == Done /\ source = <<>> /\ ret = Program(<<>>)

---------------------------------------------------------------------------
(* C8                                                                      *)

\* C8: when the returned Program holds a statement whose expression is
\* absent, the diagnostics are not empty.
C8_AbsentExpressionHasDiagnostic ==
    Done /\ (\E i \in 1..Len(ret.statements) :
                ret.statements[i].expr = NoneValue)
        => errors # <<>>

\* a Program with a statement of an absent expression was returned
C8_Witness ==
    /\ Done
    /\ \E i \in 1..Len(ret.statements) : ret.statements[i].expr = NoneValue
    /\ \E i \in 1..Len(ret.statements) : ret.statements[i].expr # NoneValue

---------------------------------------------------------------------------
(* C9                                                                      *)

\* __expect_peek(tt) called in the parser's state of now
ExpectPeekContract ==
    \A tt \in TokenType :
        LET r == expect_peek(ParserState, tt)
        IN  IF peek_token.type = tt
            THEN /\ r.result
                 /\ r.parser.errors = errors
                 /\ r.parser.current_token = peek_token
                 /\ r.parser.peek_token = StreamAt(peek_token.position + 1)
            ELSE /\ ~r.result
                 /\ r.parser.errors =
                        Append(errors, PeekErrorMessage(tt, peek_token.type))
                 /\ r.parser.current_token = current_token
                 /\ r.parser.peek_token = peek_token
                 /\ r.parser.cursor = cursor

\* the call __parse_grouped_expression makes of it
ExpectPeekStep ==
    Running("parse_grouped_expression", "expr")
        => IF peek_token.type = "RPAREN"
           THEN /\ current_token' = peek_token
                /\ peek_token' = StreamAt(peek_token.position + 1)
                /\ errors' = errors
                /\ ret' = ret
           ELSE /\ current_token' = current_token
                /\ peek_token' = peek_token
                /\ cursor' = cursor
                /\ errors' = Append(errors,
                                 PeekErrorMessage("RPAREN", peek_token.type))
                /\ ret' = NoneValue

\* C9: __expect_peek advances exactly one token, succeeds and records
\* nothing when the peek token has the expected kind; otherwise it fails,
\* records the one "expected next token" diagnostic and leaves
\* current_token and peek_token as they were.
C9_ExpectPeek == []ExpectPeekContract /\ [][ExpectPeekStep]_vars

\* a parse in which __expect_peek has succeeded once and failed once
C9_Witness ==
    /\ Done
    /\ \E i \in 1..Len(source) : source[i].type = "RPAREN" /\ i > 1
          /\ i \in {pe_calls[k] + 1 : k \in 1..Len(pe_calls)}
    /\ \E tt \in TokenType : Count(errors, PeekErrorMessage("RPAREN", tt)) = 1

---------------------------------------------------------------------------
(* C10                                                                     *)

IllegalPlaces == {i \in 1..Len(source) : source[i].type = "ILLEGAL"}

\* when parse_program has returned, every illegal token was the current
\* token of exactly one __parse_expression call, and there are as many
\* "no prefix parse function" diagnostics for ILLEGAL as illegal tokens
IllegalTokensAllReported ==
    Done => /\ \A i \in IllegalPlaces : Count(pe_calls, i) = 1
            /\ Count(errors, NoPrefixMessage("ILLEGAL"))
                 = Cardinality(IllegalPlaces)

\* a __parse_expression call on an illegal token records the one
\* diagnostic and returns an absent expression
IllegalTokenStep ==
    Running("parse_expression", "entry") /\ current_token.type = "ILLEGAL"
        => /\ errors' = Append(errors, NoPrefixMessage("ILLEGAL"))
           /\ ret' = NoneValue
           /\ stack' = SubSeq(stack, 1, Len(stack) - 1)

\* C10: every illegal token of the input is the current token of exactly
\* one __parse_expression call, which finds no prefix handler, records
\* exactly one "no prefix parse function" diagnostic and returns an absent
\* expression; none is passed over without a diagnostic.
C10_IllegalTokens == []IllegalTokensAllReported /\ [][IllegalTokenStep]_vars

\* an input with two illegal tokens, one after an operator, was parsed
C10_Witness ==
    /\ Done /\ Cardinality(IllegalPlaces) = 2
    /\ \E i \in IllegalPlaces : i > 1 /\ source[i - 1].type = "PLUS"

=============================================================================
